---- MODULE Spec2Model ----
(***************************************************************************)
(* The task intake and dispatch loop of the autonomous agent:              *)
(*   src/src/autonomous_agent.py  (AutonomousAgent, TaskFileHandler, main) *)
(*   src/src/task_processor.py    (TaskProcessor)                          *)
(*   src/src/gemini_client.py     (GeminiClient, as seen by its callers)   *)
(*                                                                         *)
(* Two threads share the agent: the asyncio loop thread, which runs the    *)
(* main coroutine (main -> start -> _main_loop -> shutdown) and the tasks  *)
(* injected with run_coroutine_threadsafe, and the watchdog observer       *)
(* thread, which calls schedule_task_processing.  A coroutine runs without *)
(* interruption by another coroutine from one suspension point to the      *)
(* next; the suspension points are the awaited generation request          *)
(* (asyncio.to_thread in generate_response) and asyncio.sleep.  Each       *)
(* action below is one such run of the loop thread, or one step of the     *)
(* observer thread or of the environment (a file created, a signal).       *)
(***************************************************************************)
EXTENDS Integers, Sequences, FiniteSets, TLC

\* Number of task file names that exist or may be created in input/.
NumFiles == 2

\* autonomous_agent.py:199  "if health_check_counter >= 6"
HealthEvery == 6

Files == 1..NumFiles

\* The value of dict.get(key) for a key the JSON object does not carry.
Absent == "absent"

RequiredFields == {"id", "task", "type"}

KnownTypes == {"analysis", "data_processing", "file_analysis", "general"}

\* The four known type tags and one tag the dispatch table does not know.
TypeValues == KnownTypes \cup {"summarise"}

\* file_path: not given, the empty string, a file open() can read, one it cannot.
PathValues == {Absent, "", "/app/data/notes.txt", "/app/data/gone.txt"}

\* What a task file holds.  A JSON object with some of the descriptor's keys:
\* a field is the key's value, Absent without the key.
Desc(id, task, type, file_path, analysis_type, priority) ==
    [parses |-> TRUE, object |-> TRUE, id |-> id, task |-> task, type |-> type,
     file_path |-> file_path, analysis_type |-> analysis_type,
     priority |-> priority]

\* Bytes json.load rejects.
Garbage ==
    [parses |-> FALSE, object |-> FALSE, id |-> Absent, task |-> Absent,
     type |-> Absent, file_path |-> Absent, analysis_type |-> Absent,
     priority |-> Absent]

\* JSON that is no object but answers "field in task_data" with True for the
\* three required names: the array ["id", "task", "type"] (or a string
\* holding the three words).  It has no .get.
NameList ==
    [parses |-> TRUE, object |-> FALSE, id |-> "id", task |-> "task",
     type |-> "type", file_path |-> Absent, analysis_type |-> Absent,
     priority |-> Absent]

\* Every descriptor execute_task is applied to under SpecExec.
Descriptors ==
    { Desc("t1", "hello", ty, fp, at, pr) :
        ty \in TypeValues \cup {Absent}, fp \in PathValues,
        at \in {Absent, "summary"}, pr \in {Absent, "high"} }

\* The contents of the task files the agent meets: unparseable, an array of
\* the required names, an object lacking a required field, a task whose
\* handler awaits a generation request, and a task whose handler answers
\* locally.
ContentOrder ==
    << Garbage,
       NameList,
       Desc("t1", "hello", Absent, Absent, Absent, Absent),
       Desc("t1", "hello", "general", Absent, Absent, Absent),
       Desc("t2", "hello", "file_analysis", Absent, Absent, Absent) >>

FileContents == {ContentOrder[i] : i \in 1..Len(ContentOrder)}

Ids == {"t1", "t2"}

VARIABLES
    running,      \* self.running
    loopSet,      \* self.loop is not None (and the loop is running)
    observer,     \* self.observer: "none", "started", "stopped"
    pending,      \* self.pending_tasks
    hcCounter,    \* health_check_counter of _main_loop
    mainPc,       \* where the main coroutine stands
    drainCtx,     \* who called _process_pending_tasks: "start" or "loop"
    mainJob,      \* the path the main coroutine's process_task_file awaits on, or 0
    scanLeft,     \* paths of the glob of _process_existing_tasks still to visit
    where,        \* each file: "absent", "input", "processed"
    content,      \* each file's contents
    output,       \* output/{id}_result.json: "none", or the status written last
    events,       \* creation events the observer thread has not delivered yet
    wtask,        \* the task injected for each path: none, ready, late, await,
                  \* stranded, done, cancelled, dropped
    started,      \* per path: process_task_file invocations started
    dispatched,   \* per path: execute_task invocations
    written,      \* per path: result envelopes written
    finished,     \* per path: process_task_file invocations that returned
    outcome,      \* per path: how the invocation that returned last ended
    resOf,        \* per path: success of the result execute_task returned last
    xPhase,       \* SpecExec: "idle", "ready", "called", "returned"
    xTask,        \* SpecExec: the descriptor given to execute_task
    xEnv,         \* SpecExec: what the client does when called
    xCall,        \* SpecExec: the client call the handler made
    xHandler,     \* SpecExec: the handler execute_task picked
    xOut,         \* SpecExec: what execute_task gave its caller
    cClient,      \* SpecClient: whose generate_response the client has
    cEntry,       \* SpecClient: the method called, generate_response or health_check
    cPrompt,      \* SpecClient: generate_response's prompt
    cContext,     \* SpecClient: generate_response's context (<<>>: None)
    cPlan,        \* SpecClient: what the n-th generation request will do
    cAttempts,    \* SpecClient: generation requests issued by this invocation
    cPhase,       \* SpecClient: "idle", "ready", "requesting", "returned", "done"
    cFull,        \* SpecClient: the prompt sent, as _prepare_prompt built it
    cOut,         \* SpecClient: what generate_response gave its caller
    cHealth,      \* SpecClient: what health_check returned: "none", "true", "false"
    signalled,    \* _signal_handler has run since the agent was constructed
    hcResult,     \* what this iteration's _health_check met: none, healthy, unhealthy, error
    closeCalled,  \* shutdown() has reached gemini_client.close()
    iterNo        \* the number of the loop's current iteration, counted from 1,
                  \* modulo 2 * HealthEvery (0 before the first iteration)

agentVars == <<running, loopSet, observer, pending, hcCounter>>
mainVars == <<mainPc, drainCtx, mainJob, scanLeft>>
fsVars == <<where, content, output>>
histVars == <<started, dispatched, written, finished, outcome, resOf>>
xVars == <<xPhase, xTask, xEnv, xCall, xHandler, xOut>>
cVars == <<cClient, cEntry, cPrompt, cContext, cPlan, cAttempts, cPhase,
           cFull, cOut, cHealth>>
obsVars == <<signalled, hcResult, closeCalled, iterNo>>
vars == <<agentVars, mainVars, fsVars, events, wtask, histVars, xVars, cVars,
          obsVars>>


(***************************************************************************)
(* The dispatcher (task_processor.py) and the client as its callers see it *)
(* (gemini_client.py).  A client call is the method's name and its two     *)
(* arguments; a result is the dict a handler returns, reduced to its       *)
(* success flag, its keys and the fields the callers read.                 *)
(***************************************************************************)

\* Listings of input/ the data_processing handler may find.
Listings == {<<>>, <<"a.json">>, <<"a.json", "b.csv">>}

\* What the client does when a method of it is called: the request succeeds,
\* the request fails, or the method raises (a client other than GeminiClient,
\* such as the mock of tests/test_gemini_client.py).
ClientBehaviours == {"ok", "fail", "raise"}

\* GeminiClient's own methods catch every Exception and return a dict.
RealClientBehaviours == {"ok", "fail"}

NoCall == [fn |-> "none", args |-> << <<>>, <<>> >>]

Result(success, keys, error, task_id) ==
    [success |-> success, keys |-> keys, error |-> error, task_id |-> task_id]

NoValue == Result(FALSE, {}, "none", Absent)

Ret(v) == [raised |-> FALSE, value |-> v]

Exc == [raised |-> TRUE, value |-> NoValue]

\* if file_path:  -- None and the empty string are both false.
Truthy(v) == v \notin {Absent, ""}

\* dict.get(key, default)
Get(v, default) == IF v = Absent THEN default ELSE v

\* all(field in task_data for field in required_fields)
ValidateTaskData(d) == \A field \in RequiredFields : d[field] # Absent

TaskHandlers ==
    [t \in KnownTypes |->
        CASE t = "analysis" -> "_handle_analysis_task"
          [] t = "data_processing" -> "_handle_data_processing_task"
          [] t = "file_analysis" -> "_handle_file_analysis_task"
          [] t = "general" -> "_handle_general_task"]

\* A lookup whose default is not the general handler; C9 tells it from the
\* code's.
HandlerForOtherDefault(d) ==
    LET task_type == Get(d.type, "general")
    IN  IF task_type \in DOMAIN TaskHandlers
        THEN TaskHandlers[task_type]
        ELSE "_handle_analysis_task"

HandlerFor(d) ==
    LET task_type == Get(d.type, "general")
    IN  IF task_type \in DOMAIN TaskHandlers
        THEN TaskHandlers[task_type]
        ELSE "_handle_general_task"

HandleAnalysisTask(d) ==
    [fn |-> "generate_response",
     args |-> << <<"Analysis Task: ", d.task>>,
                 <<"task_type", "analysis",
                   "priority", Get(d.priority, "normal"),
                   "deadline", "None">> >>]

HandleDataProcessingTask(d, listing) ==
    [fn |-> "process_data_task", args |-> << <<d.task>>, listing >>]

\* A file_analysis handler that does not test file_path; C10 tells it from
\* the code's.
HandleFileAnalysisTaskNoTest(d) ==
    [fn |-> "analyze_file",
     args |-> << <<d.file_path>>, <<Get(d.analysis_type, "general")>> >>]

HandleFileAnalysisTask(d) ==
    IF Truthy(d.file_path)
    THEN [fn |-> "analyze_file",
          args |-> << <<d.file_path>>, <<Get(d.analysis_type, "general")>> >>]
    ELSE NoCall

HandleGeneralTask(d) ==
    [fn |-> "generate_response", args |-> << <<d.task>>, <<>> >>]

\* The client call the handler h makes for d (NoCall: it answers by itself).
HandlerCall(h, d, listing) ==
    CASE h = "_handle_analysis_task" -> HandleAnalysisTask(d)
      [] h = "_handle_data_processing_task" -> HandleDataProcessingTask(d, listing)
      [] h = "_handle_file_analysis_task" -> HandleFileAnalysisTask(d)
      [] h = "_handle_general_task" -> HandleGeneralTask(d)

NoFilePathResult ==
    Result(FALSE, {"success", "error"},
           "No file path specified for file analysis task", Absent)

GenerateResponse(behaviour) ==
    IF behaviour = "ok"
    THEN Result(TRUE, {"success", "response", "model", "finish_reason",
                       "safety_ratings"}, "none", Absent)
    ELSE Result(FALSE, {"success", "error", "model"}, "generation", Absent)

AnalyzeFile(file_path, behaviour) ==
    IF file_path = "/app/data/gone.txt"
    THEN Result(FALSE, {"success", "error"}, "Failed to analyze file", Absent)
    ELSE GenerateResponse(behaviour)

ProcessDataTask(behaviour) == GenerateResponse(behaviour)

\* What the awaited client call gives the handler.
ClientReturn(call, behaviour) ==
    IF behaviour = "raise" THEN Exc
    ELSE CASE call.fn = "generate_response" -> Ret(GenerateResponse(behaviour))
           [] call.fn = "analyze_file" -> Ret(AnalyzeFile(call.args[1][1], behaviour))
           [] call.fn = "process_data_task" -> Ret(ProcessDataTask(behaviour))

\* Whether the handler's call reaches the awaited generation request, where
\* the coroutine is suspended.
Suspends(call) ==
    /\ call.fn # "none"
    /\ ~(call.fn = "analyze_file" /\ call.args[1][1] = "/app/data/gone.txt")

\* result = await handler(task_data)
HandlerOutcome(d, env) ==
    LET call == HandlerCall(HandlerFor(d), d, env.listing)
    IN  IF call.fn = "none" THEN Ret(NoFilePathResult)
        ELSE ClientReturn(call, env.client)

\* execute_task without its try/except; C8 tells it from the code's.
ExecuteTaskNoExcept(d, env) == HandlerOutcome(d, env)

\* execute_task: the try/except around the handler.  For task_data that is no
\* dict, task_data.get raises AttributeError at line 30 and again inside the
\* except clause (lines 50 and 52), from where it reaches the caller.
ExecuteTask(d, env) ==
    IF ~d.object
    THEN Exc
    ELSE LET r == HandlerOutcome(d, env)
         IN  IF r.raised
             THEN Ret(Result(FALSE, {"success", "error", "task_id"}, "exception", d.id))
             ELSE r

\* A status that ignores the result's success; C4 tells it from the code's.
StatusOfAlwaysCompleted(success) == "completed"

\* "completed" if result.get("success") else "failed"
StatusOf(success) == IF success THEN "completed" ELSE "failed"


(***************************************************************************)
(* process_task_file (autonomous_agent.py:129-158), cut at its one         *)
(* suspension point, the awaited execute_task.                             *)
(***************************************************************************)

\* The environment of the agent's own dispatcher: GeminiClient, whose request
\* succeeds or fails.
AgentEnv(behaviour) == [client |-> behaviour, listing |-> <<>>]

\* How far the first run of process_task_file(f) gets: open() fails, json.load
\* fails, validation fails, the handler awaits the client, or the handler
\* answers without suspending.
BeginKind(f) ==
    IF where[f] # "input" THEN "read_error"
    ELSE IF ~content[f].parses THEN "parse_error"
    ELSE IF ~ValidateTaskData(content[f]) THEN "invalid"
    ELSE IF ~content[f].object THEN "local"
    ELSE IF Suspends(HandlerCall(HandlerFor(content[f]), content[f], <<>>))
         THEN "await"
    ELSE "local"

\* _save_task_result: output/{id}_result.json, full overwrite.
SaveTaskResult(out, d, success) == [out EXCEPT ![d.id] = StatusOf(success)]

\* _move_processed_file: Path.rename, which raises when the source is gone.
MoveRaises(w, f) == w[f] # "input"

MoveProcessedFile(w, f) == [w EXCEPT ![f] = "processed"]

\* The invocation for f returns without a result: the except branch, or the
\* early return of a failed validation.
Abandon(f, how) ==
    /\ finished' = [finished EXCEPT ![f] = @ + 1]
    /\ outcome' = [outcome EXCEPT ![f] = how]
    /\ UNCHANGED <<fsVars, written, resOf>>

\* process_task_file moving the source whether or not the result was
\* written; C5 tells it from the code's.
SaveAndMoveRegardless(f, success, wok) ==
    /\ finished' = [finished EXCEPT ![f] = @ + 1]
    /\ resOf' = [resOf EXCEPT ![f] = IF success THEN "true" ELSE "false"]
    /\ content' = content
    /\ IF wok
       THEN /\ output' = SaveTaskResult(output, content[f], success)
            /\ written' = [written EXCEPT ![f] = @ + 1]
       ELSE UNCHANGED <<output, written>>
    /\ IF MoveRaises(where, f)
       THEN /\ where' = where
            /\ outcome' = [outcome EXCEPT ![f] = IF wok THEN "move_error" ELSE "write_error"]
       ELSE /\ where' = MoveProcessedFile(where, f)
            /\ outcome' = [outcome EXCEPT ![f] = IF wok THEN "moved" ELSE "write_error"]

\* process_task_file leaving the source of a failed task in input/; C7 tells
\* it from the code's.
SaveAndMoveSuccessOnly(f, success, wok) ==
    /\ finished' = [finished EXCEPT ![f] = @ + 1]
    /\ resOf' = [resOf EXCEPT ![f] = IF success THEN "true" ELSE "false"]
    /\ content' = content
    /\ IF wok
       THEN /\ output' = SaveTaskResult(output, content[f], success)
            /\ written' = [written EXCEPT ![f] = @ + 1]
            /\ IF MoveRaises(where, f) \/ ~success
               THEN /\ where' = where
                    /\ outcome' = [outcome EXCEPT ![f] = IF success THEN "move_error" ELSE "left"]
               ELSE /\ where' = MoveProcessedFile(where, f)
                    /\ outcome' = [outcome EXCEPT ![f] = "moved"]
       ELSE /\ outcome' = [outcome EXCEPT ![f] = "write_error"]
            /\ UNCHANGED <<where, output, written>>

\* Lines 145-149 with the except branch of line 155: save the result, then
\* move the source.  wok: whether open(output_file, "w") and json.dump
\* succeed (they raise OSError on a full disk, an unwritable output/, an id
\* holding a path separator).
SaveAndMove(f, success, wok) ==
    /\ finished' = [finished EXCEPT ![f] = @ + 1]
    /\ resOf' = [resOf EXCEPT ![f] = IF success THEN "true" ELSE "false"]
    /\ content' = content
    /\ IF wok
       THEN /\ output' = SaveTaskResult(output, content[f], success)
            /\ written' = [written EXCEPT ![f] = @ + 1]
            /\ IF MoveRaises(where, f)
               THEN /\ where' = where
                    /\ outcome' = [outcome EXCEPT ![f] = "move_error"]
               ELSE /\ where' = MoveProcessedFile(where, f)
                    /\ outcome' = [outcome EXCEPT ![f] = "moved"]
       ELSE /\ outcome' = [outcome EXCEPT ![f] = "write_error"]
            /\ UNCHANGED <<where, output, written>>

\* The rest of process_task_file(f) once execute_task gave r.
Finish(f, r, wok) ==
    IF r.raised
    THEN Abandon(f, "dispatch_error")
    ELSE SaveAndMove(f, r.value.success, wok)

\* process_task_file(f) from its start to its suspension or its return.
Begin(f, wok) ==
    LET k == BeginKind(f)
    IN  /\ started' = [started EXCEPT ![f] = @ + 1]
        /\ dispatched' = IF k \in {"await", "local"}
                         THEN [dispatched EXCEPT ![f] = @ + 1]
                         ELSE dispatched
        /\ CASE k = "await" ->
                  UNCHANGED <<fsVars, written, finished, outcome, resOf>>
             [] k = "local" ->
                  Finish(f, ExecuteTask(content[f], AgentEnv("ok")), wok)
             [] OTHER -> Abandon(f, k)

\* process_task_file(f) resumed by the client's answer.
Resume(f, behaviour, wok) ==
    /\ Finish(f, ExecuteTask(content[f], AgentEnv(behaviour)), wok)
    /\ UNCHANGED <<started, dispatched>>

(***************************************************************************)
(* The agent.                                                              *)
(***************************************************************************)

XIdle ==
    /\ xPhase = "idle"
    /\ xTask = Garbage
    /\ xEnv = [client |-> "ok", listing |-> <<>>]
    /\ xCall = NoCall
    /\ xHandler = "none"
    /\ xOut = Ret(NoValue)

\* No method of the client is being followed.
CIdle ==
    /\ cClient = "gemini"
    /\ cEntry = "none"
    /\ cPrompt = "none"
    /\ cContext = <<>>
    /\ cPlan = <<>>
    /\ cAttempts = 0
    /\ cPhase = "idle"
    /\ cFull = <<>>
    /\ cOut = Ret(NoValue)
    /\ cHealth = "none"

\* AutonomousAgent.__init__ has run: handlers installed, directories made.
Constructed ==
    /\ running = FALSE
    /\ loopSet = FALSE
    /\ observer = "none"
    /\ pending = <<>>
    /\ hcCounter = 0
    /\ mainPc = "constructed"
    /\ drainCtx = "start"
    /\ mainJob = 0
    /\ scanLeft = {}
    /\ output = [i \in Ids |-> "none"]
    /\ wtask = [f \in Files |-> "none"]
    /\ started = [f \in Files |-> 0]
    /\ dispatched = [f \in Files |-> 0]
    /\ written = [f \in Files |-> 0]
    /\ finished = [f \in Files |-> 0]
    /\ outcome = [f \in Files |-> "none"]
    /\ resOf = [f \in Files |-> "none"]
    /\ signalled = FALSE
    /\ hcResult = "none"
    /\ closeCalled = FALSE
    /\ iterNo = 0

\* The place of contents c in ContentOrder.
ContentIndex(c) == CHOOSE i \in 1..Len(ContentOrder) : ContentOrder[i] = c

\* Some files are in input/ already, the others are not created yet (their
\* contents are given when they are, and not read before).  No operation
\* looks at a file's number (the glob's order is the directory's), so of the
\* initial states that differ only by a renaming of the files one is kept:
\* the files present come first, in the order of their contents.
FilesAtStart ==
    /\ where \in [Files -> {"absent", "input"}]
    /\ content \in [Files -> FileContents]
    /\ \A f \in Files : where[f] = "absent" => content[f] = Garbage
    /\ \A f, g \in Files :
          f < g => /\ where[g] = "input" => where[f] = "input"
                   /\ where[g] = "input" =>
                        ContentIndex(content[f]) <= ContentIndex(content[g])

Init ==
    /\ Constructed
    /\ FilesAtStart
    /\ events = {}
    /\ XIdle
    /\ CIdle

\* The loop may run another task: the main coroutine is suspended, or it has
\* returned and the loop runs what is ready before asyncio.run cancels the
\* tasks left.
LoopFree ==
    mainPc \in {"scan_await", "drain_await", "hc_await", "sleep", "closed"}

\* The process is inside start(): Starting or Running.
Live == mainPc \notin {"constructed", "shutdown", "closed", "stopped"}

\* What _start_file_monitoring (lines 109-114) does: the observer thread is
\* started, or observer.start() raises (the inotify limits, a missing
\* directory) with self.observer assigned and its thread never started.
MonitoringOutcomes == {"started", "not_started"}

\* A start() that starts the observer without having stored the loop
\* reference; C23 tells it from the code's.
StartWithoutLoop ==
    /\ mainPc = "constructed"
    /\ running' = TRUE
    /\ loopSet' = FALSE
    /\ \E m \in MonitoringOutcomes :
          /\ observer' = IF m = "started" THEN "started" ELSE "created"
          /\ mainPc' = IF m = "started" THEN "monitoring" ELSE "shutdown"
    /\ UNCHANGED <<pending, hcCounter, drainCtx, mainJob, scanLeft, fsVars,
                   events, wtask, histVars, xVars, cVars, obsVars>>

\* start(), lines 92-96: the flag, the loop reference, the observer thread.
\* start() catches nothing: what _start_file_monitoring raises reaches
\* main(), whose finally clause calls shutdown().
Start ==
    /\ mainPc = "constructed"
    /\ running' = TRUE
    /\ loopSet' = TRUE
    /\ \E m \in MonitoringOutcomes :
          /\ observer' = IF m = "started" THEN "started" ELSE "created"
          /\ mainPc' = IF m = "started" THEN "monitoring" ELSE "shutdown"
    /\ UNCHANGED <<pending, hcCounter, drainCtx, mainJob, scanLeft, fsVars,
                   events, wtask, histVars, xVars, cVars, obsVars>>

\* A start() that goes to the pending list without replaying the files in
\* input/; C21 tells it from the code's.
BeginScanSkipsBacklog ==
    /\ mainPc = "monitoring"
    /\ scanLeft' = {}
    /\ mainPc' = "scan"
    /\ UNCHANGED <<agentVars, drainCtx, mainJob, fsVars, events, wtask,
                   histVars, xVars, cVars, obsVars>>

\* _process_existing_tasks: input_dir.glob("*.json") lists the directory.
BeginScan ==
    /\ mainPc = "monitoring"
    /\ scanLeft' = {f \in Files : where[f] = "input"}
    /\ mainPc' = "scan"
    /\ UNCHANGED <<agentVars, drainCtx, mainJob, fsVars, events, wtask,
                   histVars, xVars, cVars, obsVars>>

\* A scan whose process_task_file lets the exception of a failed read or
\* parse out: start() is left for shutdown().  C18 tells it from the code's.
ScanNextNoCatch(f) ==
    /\ mainPc = "scan"
    /\ f \in scanLeft
    /\ scanLeft' = scanLeft \ {f}
    /\ \E wok \in BOOLEAN : Begin(f, wok)
    /\ mainPc' = IF BeginKind(f) = "await" THEN "scan_await"
                 ELSE IF BeginKind(f) \in {"read_error", "parse_error"}
                 THEN "shutdown"
                 ELSE "scan"
    /\ mainJob' = IF BeginKind(f) = "await" THEN f ELSE 0
    /\ UNCHANGED <<agentVars, drainCtx, events, wtask, xVars, cVars, obsVars>>

\* One turn of the for loop of _process_existing_tasks.
ScanNext(f) ==
    /\ mainPc = "scan"
    /\ f \in scanLeft
    /\ scanLeft' = scanLeft \ {f}
    /\ \E wok \in BOOLEAN : Begin(f, wok)
    /\ mainPc' = IF BeginKind(f) = "await" THEN "scan_await" ELSE "scan"
    /\ mainJob' = IF BeginKind(f) = "await" THEN f ELSE 0
    /\ UNCHANGED <<agentVars, drainCtx, events, wtask, xVars, cVars, obsVars>>

\* Where the caller of _process_pending_tasks goes on when it returns:
\* start() enters _main_loop, the loop body reaches asyncio.sleep(5).
AfterDrain(ctx) == IF ctx = "start" THEN "loop_top" ELSE "sleep"

\* await self._process_pending_tasks(): with an empty list the while loop is
\* not entered and the caller goes on in the same run.
EnterDrain(ctx) == IF pending = <<>> THEN AfterDrain(ctx) ELSE "drain"

\* A drain that processes the head of the list and leaves it there; C20
\* tells it from the code's.
DrainNoPop ==
    /\ \/ mainPc = "scan" /\ scanLeft = {}
       \/ mainPc = "drain"
    /\ IF pending = <<>>
       THEN /\ mainPc' = AfterDrain(drainCtx)
            /\ UNCHANGED <<pending, mainJob, fsVars, histVars>>
       ELSE /\ pending' = pending
            /\ \E wok \in BOOLEAN : Begin(Head(pending), wok)
            /\ mainPc' = IF BeginKind(Head(pending)) = "await"
                         THEN "drain_await" ELSE "drain"
            /\ mainJob' = IF BeginKind(Head(pending)) = "await"
                          THEN Head(pending) ELSE 0
    /\ UNCHANGED <<running, loopSet, observer, hcCounter, drainCtx, scanLeft,
                   events, wtask, xVars, cVars, obsVars>>

\* _process_pending_tasks, entered by start() when the for loop of
\* _process_existing_tasks has ended, or between two queued paths: one test
\* of the while loop; pop(0) and process, or return to the caller.
Drain ==
    /\ \/ mainPc = "scan" /\ scanLeft = {}
       \/ mainPc = "drain"
    /\ IF pending = <<>>
       THEN /\ mainPc' = AfterDrain(drainCtx)
            /\ UNCHANGED <<pending, mainJob, fsVars, histVars>>
       ELSE /\ pending' = Tail(pending)
            /\ \E wok \in BOOLEAN : Begin(Head(pending), wok)
            /\ mainPc' = IF BeginKind(Head(pending)) = "await"
                         THEN "drain_await" ELSE "drain"
            /\ mainJob' = IF BeginKind(Head(pending)) = "await"
                          THEN Head(pending) ELSE 0
    /\ UNCHANGED <<running, loopSet, observer, hcCounter, drainCtx, scanLeft,
                   events, wtask, xVars, cVars, obsVars>>

\* The client answers the main coroutine's process_task_file.
MainResume ==
    /\ mainPc \in {"scan_await", "drain_await"}
    /\ \E b \in RealClientBehaviours, wok \in BOOLEAN : Resume(mainJob, b, wok)
    /\ mainPc' = IF mainPc = "scan_await" THEN "scan" ELSE "drain"
    /\ mainJob' = 0
    /\ UNCHANGED <<agentVars, drainCtx, scanLeft, events, wtask, xVars, cVars, obsVars>>

\* _main_loop, lines 193-207, entered from start() or resumed when
\* asyncio.sleep(5) ends: the test of the flag, the counter, and either the
\* awaited health check of every sixth iteration or the drain and the sleep.
\* The counter is a local of _main_loop: it starts at 0 and ends with it.
LoopIteration ==
    /\ mainPc \in {"loop_top", "sleep"}
    /\ LET counter == IF mainPc = "loop_top" THEN 0 ELSE hcCounter
       IN  IF running
           THEN /\ hcCounter' = counter + 1
                /\ mainPc' = IF counter + 1 >= HealthEvery
                             THEN "hc_await" ELSE EnterDrain("loop")
                /\ drainCtx' = "loop"
           ELSE /\ mainPc' = "shutdown"
                /\ hcCounter' = 0
                /\ UNCHANGED drainCtx
    /\ hcResult' = "none"
    /\ iterNo' = IF running THEN (iterNo + 1) % (2 * HealthEvery) ELSE iterNo
    /\ UNCHANGED <<running, loopSet, observer, pending, mainJob, scanLeft,
                   fsVars, events, wtask, histVars, xVars, cVars, signalled,
                   closeCalled>>

\* What _health_check (lines 215-228) meets: the client reports healthy or
\* unhealthy, or something in its try block raises (psutil, the client).
HealthOutcomes == {"healthy", "unhealthy", "error"}

\* A loop that gives up when the health check did not find the client
\* healthy; C15 tells it from the code's.
AfterHealthCheckStopOnFailure(h) ==
    IF h = "healthy" THEN EnterDrain("loop") ELSE "shutdown"

\* Where _main_loop goes on when _health_check has returned, lines 200-204:
\* _health_check logs what it met and returns nothing, its "except
\* Exception" lets nothing out, and the next statement is the drain.
AfterHealthCheck(h) == EnterDrain("loop")

\* A loop that does not restart its counter after the health check; C22
\* tells it from the code's.
HealthReturnKeepsCounter ==
    /\ mainPc = "hc_await"
    /\ hcCounter' = hcCounter
    /\ \E h \in HealthOutcomes :
          /\ hcResult' = h
          /\ mainPc' = AfterHealthCheck(h)
    /\ UNCHANGED <<running, loopSet, observer, pending, drainCtx, mainJob,
                   scanLeft, fsVars, events, wtask, histVars, xVars, cVars,
                   signalled, closeCalled, iterNo>>

\* _health_check returns; the counter restarts and the iteration goes on to
\* the drain and the sleep.
HealthReturn ==
    /\ mainPc = "hc_await"
    /\ hcCounter' = 0
    /\ \E h \in HealthOutcomes :
          /\ hcResult' = h
          /\ mainPc' = AfterHealthCheck(h)
    /\ UNCHANGED <<running, loopSet, observer, pending, drainCtx, mainJob,
                   scanLeft, fsVars, events, wtask, histVars, xVars, cVars,
                   signalled, closeCalled, iterNo>>

\* shutdown(), lines 233-239: the flag; "if self.observer:" stop() and
\* join(); client.close().  Events the observer had not dispatched are
\* dropped with its thread.  join() on a thread that was never started
\* raises RuntimeError: shutdown() ends there, before close().
Shutdown ==
    /\ mainPc = "shutdown"
    /\ running' = FALSE
    /\ observer' = IF observer = "started" THEN "stopped" ELSE observer
    /\ closeCalled' = (observer # "created")
    /\ events' = {}
    /\ mainPc' = "closed"
    /\ UNCHANGED <<loopSet, pending, hcCounter, drainCtx, mainJob, scanLeft,
                   fsVars, wtask, histVars, xVars, cVars, signalled, hcResult,
                   iterNo>>

\* asyncio.run, after main() returned: every task still pending is cancelled
\* (CancelledError is no Exception: process_task_file does not catch it).
\* A task the bridge injected that never had a turn is cancelled before its
\* first statement ("dropped"); one suspended in the client call is
\* cancelled there ("cancelled").
Teardown ==
    /\ mainPc = "closed"
    /\ wtask' = [f \in Files |->
                    IF wtask[f] \in {"ready", "late"} THEN "dropped"
                    ELSE IF wtask[f] \in {"await", "stranded"} THEN "cancelled"
                    ELSE wtask[f]]
    /\ mainPc' = "stopped"
    /\ UNCHANGED <<agentVars, drainCtx, mainJob, scanLeft, fsVars, events,
                   histVars, xVars, cVars, obsVars>>

\* _signal_handler (SIGINT, SIGTERM), installed by __init__ (lines 53-54):
\* it may run before start(), at any point of start(), and in shutdown().  A
\* signal that finds the flag false after an earlier one changes nothing.
SignalHandler ==
    /\ mainPc # "stopped"
    /\ running \/ ~signalled
    /\ running' = FALSE
    /\ signalled' = TRUE
    /\ UNCHANGED <<loopSet, observer, pending, hcCounter, mainVars, fsVars,
                   events, wtask, histVars, xVars, cVars, hcResult, closeCalled,
                   iterNo>>

\* Somebody creates task file f, holding c, in input/ while the agent is
\* Starting or Running (a file created before start() is one Init has in
\* input/); the started observer sees it.  The files not created yet are
\* alike: the next one created is the lowest numbered.  A file created
\* between a signal and the loop's test of self.running is not told apart by
\* the agent from one created just before the signal whose event comes
\* late (nothing in between reads the flag), so creations are taken before
\* the signal.
CreateFile(f, c) ==
    /\ Live
    /\ running
    /\ where[f] = "absent"
    /\ \A g \in Files : where[g] = "absent" => f <= g
    /\ where' = [where EXCEPT ![f] = "input"]
    /\ content' = [content EXCEPT ![f] = c]
    /\ events' = IF observer = "started" THEN events \cup {f} ELSE events
    /\ UNCHANGED <<agentVars, mainVars, output, wtask, histVars, xVars, cVars, obsVars>>

\* TaskFileHandler.on_created -> schedule_task_processing, on the observer
\* thread.  A coroutine injected while the main coroutine is suspended has
\* its task made before the main coroutine's next run ("ready"); one
\* injected during a run of the main coroutine has it made after that run
\* ("late"), which, when main() returns in that run, is behind the callback
\* that stops the loop.
ScheduleTaskProcessing(f) ==
    /\ f \in events
    /\ events' = events \ {f}
    /\ IF loopSet
       THEN /\ wtask' = [wtask EXCEPT ![f] =
                            IF LoopFree /\ mainPc # "closed"
                            THEN "ready" ELSE "late"]
            /\ UNCHANGED pending
       ELSE /\ pending' = Append(pending, f)
            /\ UNCHANGED wtask
    /\ UNCHANGED <<running, loopSet, observer, hcCounter, mainVars, fsVars,
                   histVars, xVars, cVars, obsVars>>

\* The loop runs the injected task for f up to its suspension or its return.
\* After main() returned the loop still runs the callbacks that were ready
\* ahead of its stop; a task that suspends then is not resumed ("stranded").
TaskStart(f) ==
    /\ LoopFree
    /\ wtask[f] = "ready" \/ (wtask[f] = "late" /\ mainPc # "closed")
    /\ \E wok \in BOOLEAN : Begin(f, wok)
    /\ wtask' = [wtask EXCEPT ![f] =
                    IF BeginKind(f) # "await" THEN "done"
                    ELSE IF mainPc = "closed" THEN "stranded"
                    ELSE "await"]
    /\ UNCHANGED <<agentVars, mainVars, events, xVars, cVars, obsVars>>

\* The client answers the injected task for f.
TaskResume(f) ==
    /\ LoopFree
    /\ wtask[f] = "await"
    /\ \E b \in RealClientBehaviours, wok \in BOOLEAN : Resume(f, b, wok)
    /\ wtask' = [wtask EXCEPT ![f] = "done"]
    /\ UNCHANGED <<agentVars, mainVars, events, xVars, cVars, obsVars>>

Next ==
    \/ Start
    \/ BeginScan
    \/ \E f \in Files : ScanNext(f)
    \/ Drain
    \/ MainResume
    \/ LoopIteration
    \/ HealthReturn
    \/ Shutdown
    \/ Teardown
    \/ SignalHandler
    \/ \E f \in Files, c \in FileContents : CreateFile(f, c)
    \/ \E f \in Files : ScheduleTaskProcessing(f)
    \/ \E f \in Files : TaskStart(f)
    \/ \E f \in Files : TaskResume(f)

Spec == Init /\ [][Next]_vars


(***************************************************************************)
(* The pending list on its own: schedule_task_processing called on an      *)
(* agent that has no loop yet (self.loop is None until start() stores it,  *)
(* line 93), so that the paths are queued, and _process_pending_tasks      *)
(* awaited twice in a row, as start() (line 102) and the first iteration   *)
(* of _main_loop (line 204) do.  events holds the paths                    *)
(* schedule_task_processing is yet to be called with, from another thread  *)
(* and at any point of the drains.                                         *)
(***************************************************************************)

InitDrain ==
    /\ Constructed
    /\ FilesAtStart
    /\ events = {f \in Files : where[f] = "input"}
    /\ XIdle
    /\ CIdle

\* await self._process_pending_tasks(): the first call, then the second.
DrainCall ==
    /\ mainPc \in {"constructed", "loop_top"}
    /\ drainCtx' = IF mainPc = "constructed" THEN "start" ELSE "loop"
    /\ mainPc' = "drain"
    /\ UNCHANGED <<agentVars, mainJob, scanLeft, fsVars, events, wtask,
                   histVars, xVars, cVars, obsVars>>

NextDrain ==
    \/ DrainCall
    \/ Drain
    \/ MainResume
    \/ \E f \in Files : ScheduleTaskProcessing(f)

SpecDrain == InitDrain /\ [][NextDrain]_vars


(***************************************************************************)
(* The dispatcher on its own: execute_task applied to one descriptor, with *)
(* a client that answers, fails or raises.                                 *)
(***************************************************************************)

InitExec ==
    /\ Constructed
    /\ events = {}
    /\ where = [f \in Files |-> "absent"]
    /\ content = [f \in Files |-> Garbage]
    /\ xPhase = "ready"
    /\ xTask \in Descriptors
    /\ xEnv \in [client : ClientBehaviours, listing : Listings]
    /\ xCall = NoCall
    /\ xHandler = "none"
    /\ xOut = Ret(NoValue)
    /\ CIdle

\* execute_task, lines 29-39: the handler is looked up and called; it calls
\* the client and awaits it, or returns by itself.
ExecStart ==
    /\ xPhase = "ready"
    /\ xHandler' = HandlerFor(xTask)
    /\ xCall' = HandlerCall(HandlerFor(xTask), xTask, xEnv.listing)
    /\ IF HandlerCall(HandlerFor(xTask), xTask, xEnv.listing).fn = "none"
       THEN /\ xOut' = ExecuteTask(xTask, xEnv)
            /\ xPhase' = "returned"
       ELSE /\ xOut' = xOut
            /\ xPhase' = "called"
    /\ UNCHANGED <<agentVars, mainVars, fsVars, events, wtask, histVars,
                   xTask, xEnv, cVars, obsVars>>

\* The client call ends; execute_task returns (lines 41-52).
ExecReturn ==
    /\ xPhase = "called"
    /\ xOut' = ExecuteTask(xTask, xEnv)
    /\ xPhase' = "returned"
    /\ UNCHANGED <<agentVars, mainVars, fsVars, events, wtask, histVars,
                   xTask, xEnv, xCall, xHandler, cVars, obsVars>>

NextExec == ExecStart \/ ExecReturn

SpecExec == InitExec /\ [][NextExec]_vars


(***************************************************************************)
(* The client on its own (gemini_client.py): one call of generate_response *)
(* or of health_check.  generate_response is GeminiClient's, wrapped by    *)
(* tenacity's @retry, or a stand-in put in its place (as the tests do with *)
(* patch.object) that answers at once or raises.                           *)
(***************************************************************************)

\* gemini_client.py:44  stop=stop_after_attempt(3)
MaxAttempts == 3

\* What one generation request (model.generate_content and the reading of
\* response.text) does: it gives a response, or it raises.
RequestOutcomes == {"ok", "raise"}

\* What the first, second and third request of an invocation would do.
Plans == [1..MaxAttempts -> RequestOutcomes]

ClientKinds ==
    {"gemini", "answers_true", "answers_false", "answers_empty", "raises"}

Prompts == {"Hi", "Summarise the report"}

\* context: None (or an empty dict), or a dict with one entry.
Contexts == {<<>>, <<"task_type", "analysis">>}

\* _prepare_prompt: the system prompt, the context section "if context", the
\* task.
PreparePrompt(prompt, context) ==
    <<"system_prompt">>
    \o (IF context # <<>> THEN <<"Context:">> \o context ELSE <<>>)
    \o <<"Task:", prompt>>

\* The body of generate_response, lines 50-84: whatever the request does is
\* answered with a dict; "except Exception" lets nothing out.
GenerateResponseBody(request) ==
    Ret(GenerateResponse(IF request = "ok" THEN "ok" ELSE "fail"))

\* tenacity's @retry around the body: it calls the body again when the body
\* raised and attempts are left, gives up (RetryError) when it raised and
\* none is left, and returns what the body returned otherwise.
RetryDecision(r, attempts) ==
    IF ~r.raised THEN "return"
    ELSE IF attempts < MaxAttempts THEN "retry"
    ELSE "give_up"

\* A stand-in for generate_response.
StandIn(kind) ==
    CASE kind = "answers_true" -> Ret(Result(TRUE, {"success"}, "none", Absent))
      [] kind = "answers_false" -> Ret(Result(FALSE, {"success", "error"}, "API Error", Absent))
      [] kind = "answers_empty" -> Ret(Result(FALSE, {}, "none", Absent))
      [] kind = "raises" -> Exc

\* A health check that takes every answer for a good one; C19 tells it from
\* the code's.
HealthCheckAnyAnswer(out) == IF out.raised THEN "false" ELSE "true"

\* health_check, lines 200-214: response.get("success", False), and False
\* when the call raised.
HealthCheck(out) ==
    IF out.raised THEN "false"
    ELSE IF "success" \in out.value.keys /\ out.value.success THEN "true"
    ELSE "false"

InitClient ==
    /\ Constructed
    /\ events = {}
    /\ where = [f \in Files |-> "absent"]
    /\ content = [f \in Files |-> Garbage]
    /\ XIdle
    /\ cClient \in ClientKinds
    /\ cEntry \in {"generate_response", "health_check"}
    /\ cPrompt \in IF cEntry = "health_check" THEN {"Hi"} ELSE Prompts
    /\ cContext \in IF cEntry = "health_check" THEN {<<>>} ELSE Contexts
    /\ cPlan \in IF cClient = "gemini" THEN Plans ELSE {[i \in 1..MaxAttempts |-> "ok"]}
    /\ cAttempts = 0
    /\ cPhase = "ready"
    /\ cFull = <<>>
    /\ cOut = Ret(NoValue)
    /\ cHealth = "none"

\* generate_response is called (by health_check with "Hi", or by a handler):
\* GeminiClient's prepares the prompt and issues its first request; a
\* stand-in answers.
GenCall ==
    /\ cPhase = "ready"
    /\ IF cClient = "gemini"
       THEN /\ cFull' = PreparePrompt(cPrompt, cContext)
            /\ cAttempts' = 1
            /\ cPhase' = "requesting"
            /\ cOut' = cOut
       ELSE /\ cOut' = StandIn(cClient)
            /\ cPhase' = "returned"
            /\ UNCHANGED <<cFull, cAttempts>>
    /\ UNCHANGED <<agentVars, mainVars, fsVars, events, wtask, histVars, xVars,
                   cClient, cEntry, cPrompt, cContext, cPlan, cHealth, obsVars>>

\* The request ends; the body returns and the retry wrapper decides.
GenAnswer ==
    /\ cPhase = "requesting"
    /\ LET r == GenerateResponseBody(cPlan[cAttempts])
           d == RetryDecision(r, cAttempts)
       IN  IF d = "retry"
           THEN /\ cAttempts' = cAttempts + 1
                /\ UNCHANGED <<cPhase, cOut>>
           ELSE /\ cOut' = IF d = "give_up" THEN Exc ELSE r
                /\ cPhase' = "returned"
                /\ UNCHANGED cAttempts
    /\ UNCHANGED <<agentVars, mainVars, fsVars, events, wtask, histVars, xVars,
                   cClient, cEntry, cPrompt, cContext, cPlan, cFull, cHealth, obsVars>>

\* health_check returns.
HealthCheckReturn ==
    /\ cEntry = "health_check"
    /\ cPhase = "returned"
    /\ cHealth' = HealthCheck(cOut)
    /\ cPhase' = "done"
    /\ UNCHANGED <<agentVars, mainVars, fsVars, events, wtask, histVars, xVars,
                   cClient, cEntry, cPrompt, cContext, cPlan, cAttempts, cFull,
                   cOut, obsVars>>

NextClient == GenCall \/ GenAnswer \/ HealthCheckReturn

SpecClient == InitClient /\ [][NextClient]_vars


(***************************************************************************)
(* The claims.                                                             *)
(***************************************************************************)

\* A file holding a JSON object with id, task and type.
WellFormed(d) ==
    d.parses /\ d.object /\ d.id # Absent /\ d.task # Absent /\ d.type # Absent

\* This step is the return of an invocation of process_task_file(f).
Returns(f) == finished'[f] = finished[f] + 1

\* The invocations of process_task_file that have started and not returned:
\* the main coroutine's (backlog scan or drain) and the injected tasks'.
InFlight ==
    (IF mainJob # 0 THEN 1 ELSE 0) + Cardinality({f \in Files : wtask[f] \in {"await", "stranded"}})

\* C1: at most one invocation of process_task_file has started and not yet
\* finished, whichever of the backlog scan, the drain and the watcher's
\* injection started it (so at most one generation call is in flight).
C1_AtMostOneInFlight == InFlight <= 1

\* C2: a path picked up by the backlog scan and by a watcher event is
\* dispatched at most once and its result is written at most once.
C2_NoDoubleProcessing ==
    \A f \in Files : dispatched[f] <= 1 /\ written[f] <= 1

\* C3: every well-formed task file present when the agent starts or created
\* while it is Starting or Running is eventually in processed/ with its
\* result written; stated of the run's end: once the agent is Stopped, each
\* such file (every file of the model is there before start() or created
\* while the running flag is set) whose result write did not fail is in
\* processed/ with its result written.
C3_ProcessedAtStop ==
    mainPc = "stopped" =>
        \A f \in Files :
            (where[f] # "absent" /\ WellFormed(content[f])
                /\ outcome[f] # "write_error")
            => (where[f] = "processed" /\ written[f] >= 1)

\* The state C4 promises when an invocation for f returns.
C4_Post(f) ==
    /\ output'[content[f].id] = (IF resOf'[f] = "true" THEN "completed" ELSE "failed")
    /\ where'[f] = "processed"

C5_WriteBeforeMove ==
    /\ [](\A f \in Files :
            where[f] = "processed"
            => (written[f] >= 1 /\ output[content[f].id] # "none"))
    /\ [][\A f \in Files :
            /\ (where[f] # "processed" /\ where'[f] = "processed")
               => written'[f] = written[f] + 1
            /\ (Returns(f) /\ outcome'[f] = "write_error")
               => (where'[f] = where[f] /\ output' = output)]_vars

\* One invocation for f failed to write and left f in input/, and another
\* wrote the result and moved f.
C5_Witness ==
    \E f \in Files :
        /\ where[f] = "processed"
        /\ finished[f] = 2
        /\ dispatched[f] = 2
        /\ written[f] = 1

\* Not parseable, or without one of the fields id, task, type.
Malformed(d) ==
    ~d.parses \/ ~d.object \/ d.id = Absent \/ d.task = Absent \/ d.type = Absent

\* C6: a task file that is not parseable JSON or lacks one of id, task, type
\* stays in input/, no invocation for it writes to output/ or reaches the
\* dispatcher (hence the client), and it is not retried: it is tried once
\* by the backlog scan and once for its creation event, no more.
C6_MalformedAbandoned ==
    \A f \in Files :
        (where[f] # "absent" /\ Malformed(content[f]))
        => /\ where[f] = "input"
           /\ written[f] = 0
           /\ dispatched[f] = 0
           /\ resOf[f] = "none"
           /\ started[f] <= (IF wtask[f] = "none" THEN 1 ELSE 2)
           /\ f \notin {pending[i] : i \in 1..Len(pending)}

\* A file_analysis task that names no file: its handler fails by itself.
C7_LocalFailure(d) == d.type = "file_analysis" /\ d.file_path \in {Absent, ""}

\* The state C7 promises when an invocation for f returns.
C7_Post(f) ==
    /\ output'[content[f].id] = "failed"
    /\ written'[f] = written[f] + 1
    /\ where'[f] = "processed"

C8_ExecuteNeverRaises ==
    xPhase = "returned" =>
        /\ ~xOut.raised
        /\ "success" \in xOut.value.keys
        /\ xOut.value.success \in BOOLEAN
        /\ (xCall.fn # "none" /\ xEnv.client = "raise")
           => /\ xOut.value.success = FALSE
              /\ xOut.value.keys = {"success", "error", "task_id"}
              /\ xOut.value.task_id = xTask.id

\* The client raised inside the handler and execute_task returned the
\* error result.
C8_Witness ==
    /\ xPhase = "returned"
    /\ ValidateTaskData(xTask)
    /\ xCall.fn # "none"
    /\ xEnv.client = "raise"
    /\ xOut.value.task_id = "t1"
    /\ ~xOut.value.success

\* C9: a task whose type is none of the four known ones gets the general
\* handler, the call generate_response(task text, no context) and the result
\* the same task gets with type "general"; each known type gets its own
\* handler.
C9_UnknownTypeIsGeneral ==
    xPhase \in {"called", "returned"} =>
        /\ xTask.type \notin {"analysis", "data_processing", "file_analysis", "general"}
           => /\ xHandler = "_handle_general_task"
              /\ xCall = [fn |-> "generate_response",
                          args |-> << <<xTask.task>>, <<>> >>]
              /\ xPhase = "returned"
                 => xOut = ExecuteTask([xTask EXCEPT !.type = "general"], xEnv)
        /\ xTask.type = "analysis" => xHandler = "_handle_analysis_task"
        /\ xTask.type = "data_processing" => xHandler = "_handle_data_processing_task"
        /\ xTask.type = "file_analysis" => xHandler = "_handle_file_analysis_task"
        /\ xTask.type = "general" => xHandler = "_handle_general_task"

\* A task of an unknown type was answered by the general handler.
C9_Witness ==
    /\ xPhase = "returned"
    /\ xTask.type = "summarise"
    /\ xHandler = "_handle_general_task"
    /\ xCall.fn = "generate_response"
    /\ xOut.value.success

\* C10: a file_analysis task with no file_path (none given, or an empty one:
\* "if file_path") makes no client call and returns success false; with a
\* file_path it calls analyze_file(file_path, analysis_type), analysis_type
\* being "general" when none is given.
C10_FileAnalysisNeedsPath ==
    (xPhase \in {"called", "returned"} /\ xTask.type = "file_analysis") =>
        /\ xTask.file_path \in {Absent, ""}
           => /\ xCall.fn = "none"
              /\ xPhase = "returned"
              /\ ~xOut.raised
              /\ xOut.value.success = FALSE
        /\ xTask.file_path \notin {Absent, ""}
           => xCall = [fn |-> "analyze_file",
                       args |-> << <<xTask.file_path>>,
                                   <<IF xTask.analysis_type = Absent
                                     THEN "general"
                                     ELSE xTask.analysis_type>> >>]

\* A file_analysis task without file_path returned its local failure.
C10_Witness ==
    /\ xPhase = "returned"
    /\ xTask.type = "file_analysis"
    /\ xTask.file_path = Absent
    /\ xCall.fn = "none"
    /\ ~xOut.value.success

\* The requests of the plan that give a response.
C11_Good == {i \in 1..MaxAttempts : cPlan[i] = "ok"}

\* C11: GeminiClient.generate_response issues its request again when an
\* attempt fails, up to 3 attempts: it returns success true when one of the
\* three attempts gives a response, having stopped at the first that does,
\* and success false only after three failed attempts.
C11_BoundedRetry ==
    (cClient = "gemini" /\ cEntry = "generate_response" /\ cPhase = "returned") =>
        /\ ~cOut.raised
        /\ cOut.value.success = (C11_Good # {})
        /\ cAttempts = IF C11_Good = {}
                       THEN MaxAttempts
                       ELSE CHOOSE i \in C11_Good : \A j \in C11_Good : i <= j

\* C19: health_check returns, and returns true exactly when its call of
\* generate_response returned a result whose success is true; it returns
\* false when success is false or missing and when the call raised.
C19_HealthCheckReports ==
    cPhase = "done" =>
        /\ cHealth \in {"true", "false"}
        /\ cHealth = "true"
           <=> (~cOut.raised /\ "success" \in cOut.value.keys /\ cOut.value.success)
        /\ cClient \in {"answers_false", "answers_empty", "raises"} => cHealth = "false"
        /\ cClient = "answers_true" => cHealth = "true"

\* health_check returned false after its call of generate_response raised.
C19_Witness ==
    /\ cPhase = "done"
    /\ cEntry = "health_check"
    /\ cClient = "raises"
    /\ cOut.raised
    /\ cHealth = "false"


\* C12: once a signal has been delivered (before start(), in Starting or in
\* Running), the next test of "while self.running" by _main_loop finds the
\* flag false and leaves the loop for shutdown().
C12_SignalLeavesLoop ==
    [][(signalled /\ mainPc \in {"loop_top", "sleep"} /\ hcCounter' # hcCounter)
          => mainPc' = "shutdown"]_vars

\* C13: whichever way start() is left, when the process is Stopped the
\* watcher is not running any more and the client's close() has been called.
C13_CleanupOnEveryExit ==
    mainPc = "stopped" => (closeCalled /\ observer # "started")

\* C14: shutdown cancels no work in flight: when the process is Stopped,
\* every invocation of process_task_file that was started has run to its
\* end.
C14_StartedWorkFinishes ==
    mainPc = "stopped" => \A f \in Files : finished[f] = started[f]

\* The positions of the main coroutine inside _main_loop.
C15_InLoop == {"loop_top", "sleep", "hc_await", "drain", "drain_await"}

\* C15: _main_loop is left only by its test of the flag finding it false; a
\* health check that reports the client unhealthy, or that met an
\* exception, is followed by the drain and the sleep of the same iteration.
C15_LoopLeftOnlyByFlag ==
    [][/\ (mainPc \in C15_InLoop /\ mainPc' \notin C15_InLoop)
            => (~running /\ mainPc \in {"loop_top", "sleep"}
                         /\ mainPc' = "shutdown")
       /\ (mainPc = "hc_await" /\ mainPc' # "hc_await")
            => mainPc' \in {"drain", "sleep"}]_vars

\* C15: a health check has failed and the loop, still running, is at its
\* sleep, from where the next iteration starts.
C15_Witness ==
    mainPc = "sleep" /\ running /\ hcResult \in {"unhealthy", "error"}

\* C16: the hand-off from the watcher thread loses nothing: when the process
\* is Stopped, every path the watcher submitted to the loop has had its
\* invocation of process_task_file started.
C16_EverySubmissionStarted ==
    mainPc = "stopped" => \A f \in Files : wtask[f] # "dropped"

\* The ways process_task_file ends without having processed its file.
FailureOutcomes ==
    {"read_error", "parse_error", "invalid", "dispatch_error", "write_error",
     "move_error"}

\* C17: a path taken from the pending list whose processing failed is still
\* in the pending list afterwards.
C17_FailedStaysQueued ==
    \A f \in Files :
        (finished[f] >= 1 /\ outcome[f] \in FailureOutcomes)
            => \E i \in 1..Len(pending) : pending[i] = f

\* C20: a drain that finds the pending list empty reads, writes and moves no
\* file and calls neither the dispatcher nor the client; and over two drains
\* in a row a path queued once is processed once.
C20_DrainIdempotent ==
    /\ [](\A f \in Files : started[f] <= 1)
    /\ [][(mainPc = "drain" /\ pending = <<>> /\ mainPc' # "drain")
             => UNCHANGED <<pending, fsVars, histVars, xVars, cVars>>]_vars

\* C20: both drains have returned, a queued path was processed, and nothing
\* is left to queue: the last test of the list found it empty.
C20_Witness ==
    /\ mainPc = "sleep"
    /\ pending = <<>>
    /\ events = {}
    /\ \E f \in Files : started[f] = 1 /\ finished[f] = 1

\* C18: whenever an invocation of process_task_file ends in a failure (of
\* the read, the parse, the validation, the dispatch, the write or the
\* move), its caller goes on: the backlog scan keeps the paths it has left
\* and takes the next, the drain tests the list again, and when the
\* invocation was a task of its own the main coroutine stays where it is.
C18_FailureIsolated ==
    [][\A f \in Files :
          (finished'[f] = finished[f] + 1 /\ outcome'[f] \in FailureOutcomes)
            => IF wtask'[f] # wtask[f]
               THEN mainPc' = mainPc /\ scanLeft' = scanLeft
               ELSE \/ /\ mainPc \in {"scan", "scan_await"}
                       /\ mainPc' = "scan"
                       /\ scanLeft' = scanLeft \ {f}
                    \/ /\ mainPc \in {"drain", "drain_await"}
                       /\ mainPc' = "drain"
                       /\ Len(pending') >= Len(pending) - 1]_vars

\* C18: the scan met a file it could not parse, went on, and is now
\* processing another file.
C18_Witness ==
    /\ mainPc = "scan_await"
    /\ \E f \in Files :
          /\ f # mainJob
          /\ outcome[f] = "parse_error"
          /\ wtask[f] = "none"

\* The lifecycle state of a position of the main coroutine: Stopped before
\* start() and when asyncio.run has ended, Starting from the first statement
\* of start() to the end of its drain, Running inside _main_loop,
\* ShuttingDown from the call of shutdown() on.
C21_Phase(pc, ctx) ==
    CASE pc \in {"constructed", "stopped"} -> "Stopped"
      [] pc \in {"monitoring", "scan", "scan_await"} -> "Starting"
      [] pc \in {"drain", "drain_await"} /\ ctx = "start" -> "Starting"
      [] pc \in {"shutdown", "closed"} -> "ShuttingDown"
      [] OTHER -> "Running"

\* File f was in input/ before start(): no watcher event was raised for it.
C21_Backlog(f) == where[f] # "absent" /\ f \notin events /\ wtask[f] = "none"

\* C21: the lifecycle state moves only along Stopped, Starting, Running,
\* ShuttingDown, Stopped, with Starting to ShuttingDown when startup raised
\* (the step of start() that raises is taken in one piece, from Stopped);
\* the backlog is scanned with the watcher started; the loop is entered
\* from the drain of start() that found the list empty, with every file
\* that was in input/ before start() processed.
C21_LifecycleOrder ==
    /\ [](mainPc \in {"scan", "scan_await"} => observer = "started")
    /\ [](C21_Phase(mainPc, drainCtx) = "Running"
              => /\ scanLeft = {}
                 /\ \A f \in Files : C21_Backlog(f) => finished[f] >= 1)
    /\ [][LET p == C21_Phase(mainPc, drainCtx)
              q == C21_Phase(mainPc', drainCtx')
          IN  /\ \/ p = q /\ (mainPc = "stopped" => mainPc' = "stopped")
                           /\ (mainPc' = "constructed" => mainPc = "constructed")
                 \/ p = "Stopped" /\ q = "Starting" /\ mainPc = "constructed"
                 \/ p = "Starting" /\ q \in {"Running", "ShuttingDown"}
                 \/ p = "Running" /\ q = "ShuttingDown"
                 \/ p = "ShuttingDown" /\ q = "Stopped"
                 \/ /\ mainPc = "constructed" /\ q = "ShuttingDown"
                    /\ loopSet' /\ observer' = "created"
              /\ (mainPc # "loop_top" /\ mainPc' = "loop_top")
                    => /\ mainPc \in {"scan", "drain"}
                       /\ scanLeft = {}
                       /\ pending = <<>>]_vars

\* C21: a file that was in input/ before start() has been processed and the
\* first iteration of the main loop has run.
C21_Witness ==
    /\ mainPc = "sleep"
    /\ hcCounter = 1
    /\ \E f \in Files : C21_Backlog(f) /\ finished[f] >= 1

\* C22: counting the iterations of the main loop from 1, an iteration awaits
\* _health_check exactly when its number is a multiple of 6; the counter is
\* in 0..5 when the iteration reaches its sleep; and the iteration that ran
\* the health check goes on to the drain (which returns at once to the sleep
\* when the list is empty).
C22_HealthCheckCadence ==
    /\ [](mainPc = "sleep" => hcCounter \in 0..(HealthEvery - 1))
    /\ [](mainPc = "hc_await" => iterNo % HealthEvery = 0)
    /\ [][/\ (mainPc \in {"loop_top", "sleep"} /\ iterNo' # iterNo)
               => ((mainPc' = "hc_await") <=> (iterNo' % HealthEvery = 0))
          /\ (mainPc = "hc_await" /\ mainPc' # "hc_await")
               => mainPc' = (IF pending = <<>> THEN "sleep" ELSE "drain")]_vars

\* C22: the twelfth iteration is in its health check: the sixth ran one and
\* the five after it did not.
C22_Witness == mainPc = "hc_await" /\ iterNo = 0

\* C23: while the agent is live the pending-list fallback is never taken:
\* whenever the watcher thread can deliver an event the loop reference is
\* set, every call of schedule_task_processing injects its coroutine into
\* the loop, and pending_tasks is empty in every reachable state.
C23_FallbackNeverTaken ==
    /\ [](pending = <<>>)
    /\ []((observer = "started" \/ events # {}) => loopSet)
    /\ [][\A f \in Files :
              (f \in events /\ f \notin events' /\ mainPc' = mainPc)
                 => (wtask'[f] \in {"ready", "late"} /\ pending' = pending)]_vars

\* C23: the watcher has submitted a file and its coroutine waits in the
\* loop for its first turn.
C23_Witness ==
    /\ pending = <<>>
    /\ \E f \in Files : wtask[f] = "ready" /\ started[f] = 0

\* C24: once shutdown() has called the client's close(), no invocation of
\* process_task_file starts or resumes, no result is written to output/ and
\* no file is moved to processed/.
C24_NothingAfterClose ==
    [][closeCalled => UNCHANGED <<fsVars, histVars>>]_vars

====
